---- MODULE Spec2Model ----
(***************************************************************************)
(* State-machine model of git::Repository (libgit4cpp): one repository     *)
(* directory on disk (working tree, index, commits, branch references,     *)
(* HEAD) and one Repository object operating on it through libgit2.        *)
(***************************************************************************)
EXTENDS Integers, Sequences, FiniteSets, TLC

(***************************************************************************)
(* Bounds of the exploration.                                              *)
(***************************************************************************)
MaxCommits == 2   \* commit objects the object store may hold
MaxWrites == 2    \* working-tree modifications made from outside
MaxReset == 2     \* largest argument tried for reset()
MaxFailedConstructions == 1   \* constructors that threw after git_libgit2_init

(***************************************************************************)
(* libgit2 error codes (git2/errors.h) as named in Error.cc.               *)
(***************************************************************************)
GIT_OK == 0
GIT_ENOTFOUND == 0 - 3
GIT_EEXISTS == 0 - 4
GIT_EUSER == 0 - 7
GIT_ERROR == 0 - 1
GIT_ELOCKED == 0 - 14

\* Error(const std::string&): the code of every Error Repository.cc throws.
ThrownCode == GIT_EUSER

(***************************************************************************)
(* The input universe: paths (in the byte order libgit2 sorts them in),    *)
(* file values, branch names, globs, commit messages.                      *)
(***************************************************************************)
PathList == <<".h/a", "H/a", "a", "d/H/a", "d/a", "d/b", "x.o">>
Paths == {PathList[k] : k \in 1..Len(PathList)}

\* The files the outside world creates, modifies and deletes while calls
\* are being made; the other paths exist only in the trees globs are
\* tried on.
CorePaths == {"a", "d/b", "x.o"}

\* Paths excluded by an ignore rule (a core.excludesfile or info/exclude
\* line "*.o"); the rule itself is not a file of the working tree.
IgnoredPaths == {"x.o"}

NoFile == "none"
Values == {"f1", "f2", "l1"}          \* two regular files, one symlink
Kind(v) == IF v = "l1" THEN "link" ELSE "blob"

\* What the outside world writes to each path.
WritableValues(p) ==
    CASE p = "a" -> {"f1", "f2", "l1"}
      [] p = "d/b" -> {"f1"}
      [] OTHER -> {"f1"}

Branches == {"main", "dev"}
Messages == {"m1"}
Globs == {"*", "a", "d/*"}

\* The globs tried on whole trees.
GlobTests ==
    {"*", "a*", "*/a*", "*/H*", "H*", ".*", "d/?", "*[Hd]/*", "d/[a-b]", "d", "?"}

Chars(s) ==
    CASE s = "a" -> <<"a">>
      [] s = "d/b" -> <<"d", "/", "b">>
      [] s = "x.o" -> <<"x", ".", "o">>
      [] s = ".h/a" -> <<".", "h", "/", "a">>
      [] s = "H/a" -> <<"H", "/", "a">>
      [] s = "d/H/a" -> <<"d", "/", "H", "/", "a">>
      [] s = "d/a" -> <<"d", "/", "a">>
      [] s = "*" -> <<"*">>
      [] s = "d/*" -> <<"d", "/", "*">>
      [] s = "d" -> <<"d">>
      [] s = "a*" -> <<"a", "*">>
      [] s = "*/a*" -> <<"*", "/", "a", "*">>
      [] s = "*/H*" -> <<"*", "/", "H", "*">>
      [] s = "H*" -> <<"H", "*">>
      [] s = ".*" -> <<".", "*">>
      [] s = "d/?" -> <<"d", "/", "?">>
      [] s = "*[Hd]/*" -> <<"*", "[", "H", "d", "]", "/", "*">>
      [] s = "d/[a-b]" -> <<"d", "/", "[", "a", "-", "b", "]">>
      [] s = "?" -> <<"?">>
      [] OTHER -> <<>>

\* Byte order of the characters used.
Alphabet == <<"*", "-", ".", "/", "?", "H", "[", "]", "a", "b", "d", "h", "o", "x">>
Ord(c) == CHOOSE k \in 1..Len(Alphabet) : Alphabet[k] = c

EmptyTree == [p \in Paths |-> NoFile]

(***************************************************************************)
(* Pathspec matching of git_index_add_all / git_index_update_all, which    *)
(* Repository::add and Repository::update hand the glob to unchanged: the  *)
(* glob is matched against the whole pathname, `*` matches any run of      *)
(* characters (also '/'), `?` and a bracket one character; a glob without  *)
(* wildcard also selects everything below the directory it names.  libgit2 *)
(* has no rule for names starting with '.'.                                *)
(***************************************************************************)
\* Position of the ']' closing the bracket opened at g[i]; 0 if unclosed.
CloseOf(g, i) ==
    LET cl == {k \in (i + 2)..Len(g) : g[k] = "]"}
    IN IF cl = {} THEN 0 ELSE CHOOSE k \in cl : \A m \in cl : k <= m

\* Characters accepted by the bracket body g[lo..hi]: listed characters
\* and inclusive ranges x-y.
InBracket(g, lo, hi, c) ==
    \E k \in lo..hi :
        \/ /\ k + 2 <= hi /\ g[k + 1] = "-"
           /\ Ord(g[k]) <= Ord(c) /\ Ord(c) <= Ord(g[k + 2])
        \/ /\ g[k] = c
           /\ ~(k > lo /\ k < hi /\ c = "-")

RECURSIVE MatchAt(_, _, _, _)
MatchAt(g, i, s, j) ==
    IF i > Len(g) THEN j > Len(s)
    ELSE IF g[i] = "*"
         THEN \E k \in j..(Len(s) + 1) : MatchAt(g, i + 1, s, k)
    ELSE IF g[i] = "?"
         THEN j <= Len(s) /\ MatchAt(g, i + 1, s, j + 1)
    ELSE IF g[i] = "[" /\ CloseOf(g, i) # 0
         THEN /\ j <= Len(s)
              /\ InBracket(g, i + 1, CloseOf(g, i) - 1, s[j])
              /\ MatchAt(g, CloseOf(g, i) + 1, s, j + 1)
    ELSE j <= Len(s) /\ s[j] = g[i] /\ MatchAt(g, i + 1, s, j + 1)

HasWild(g) == \E k \in 1..Len(g) : g[k] \in {"*", "?", "["}

\* A glob without wildcard that names a directory above the path.
DirPrefix(g, s) ==
    /\ ~HasWild(g)
    /\ Len(s) > Len(g) + 1
    /\ SubSeq(s, 1, Len(g)) = g
    /\ s[Len(g) + 1] = "/"

\* The paths each glob in use selects, computed once.
MatchedBy ==
    [g \in Globs \cup GlobTests |->
        {p \in Paths : \/ MatchAt(Chars(g), 1, Chars(p), 1)
                       \/ DirPrefix(Chars(g), Chars(p))}]

\* Shell matching, where a wildcard stays within one path segment.
Match_within_segment(glob, path) ==
    /\ MatchAt(Chars(glob), 1, Chars(path), 1)
    /\ Cardinality({k \in 1..Len(Chars(glob)) : Chars(glob)[k] = "/"})
          = Cardinality({k \in 1..Len(Chars(path)) : Chars(path)[k] = "/"})

Match(glob, path) == path \in MatchedBy[glob]

(***************************************************************************)
(* libgit2 status flags of one path, from HEAD tree h, index i and         *)
(* working tree w (git_status_list_new with INCLUDE_UNTRACKED,             *)
(* RECURSE_UNTRACKED_DIRS, INCLUDE_UNMODIFIED, INCLUDE_IGNORED; no rename  *)
(* detection is requested, so the RENAMED flags are never set).            *)
(***************************************************************************)
IndexFlags(h, i, p) ==
    IF h[p] = NoFile /\ i[p] = NoFile THEN {}
    ELSE IF h[p] = NoFile THEN {"INDEX_NEW"}
    ELSE IF i[p] = NoFile THEN {"INDEX_DELETED"}
    ELSE IF Kind(h[p]) # Kind(i[p]) THEN {"INDEX_TYPECHANGE"}
    ELSE IF h[p] # i[p] THEN {"INDEX_MODIFIED"}
    ELSE {}

WtFlags(i, w, p) ==
    IF i[p] = NoFile /\ w[p] = NoFile THEN {}
    ELSE IF i[p] = NoFile
         THEN IF p \in IgnoredPaths THEN {"IGNORED"} ELSE {"WT_NEW"}
    ELSE IF w[p] = NoFile THEN {"WT_DELETED"}
    ELSE IF Kind(i[p]) # Kind(w[p]) THEN {"WT_TYPECHANGE"}
    ELSE IF i[p] # w[p] THEN {"WT_MODIFIED"}
    ELSE {}

Known(h, i, w, p) == h[p] # NoFile \/ i[p] # NoFile \/ w[p] # NoFile

\* The git_status_list: one entry per known path, in path order.
StatusList(h, i, w) ==
    LET all == [k \in 1..Len(PathList) |->
                   [path |-> PathList[k],
                    status |-> IndexFlags(h, i, PathList[k])
                                 \cup WtFlags(i, w, PathList[k])]]
        IsKnown(e) == Known(h, i, w, e.path)
    IN SelectSeq(all, IsKnown)

(***************************************************************************)
(* Repository::is_unstaged / is_staged: later tests overwrite earlier      *)
(* ones; the empty string means "not in this bucket".                      *)
(***************************************************************************)
Wstatus(st) ==
    IF "WT_TYPECHANGE" \in st THEN "typechange"
    ELSE IF "WT_RENAMED" \in st THEN "renamed"
    ELSE IF "WT_DELETED" \in st THEN "deleted"
    ELSE IF "WT_MODIFIED" \in st THEN "modified"
    ELSE ""

is_unstaged(s) == Wstatus(s.status) # ""

Istatus(st) ==
    IF "INDEX_TYPECHANGE" \in st THEN "typechange"
    ELSE IF "INDEX_RENAMED" \in st THEN "renamed"
    ELSE IF "INDEX_DELETED" \in st THEN "deleted"
    ELSE IF "INDEX_MODIFIED" \in st THEN "modified"
    ELSE IF "INDEX_NEW" \in st THEN "new file"
    ELSE ""

\* is_staged without its GIT_STATUS_INDEX_DELETED test.
is_staged_skips_deleted(s) == Istatus(s.status \ {"INDEX_DELETED"}) # ""

is_staged(s) == Istatus(s.status) # ""

\* The FileStatus pushed for entry s; no_entry when no branch of the loop
\* body pushes one.
no_entry == [path_name |-> "", handling |-> "", changes |-> ""]

\* collect_status asking is_staged before is_unstaged.
classify_staged_first(s) ==
    IF s.status = {}
    THEN [path_name |-> s.path, handling |-> "unchanged", changes |-> "unchanged"]
    ELSE IF is_staged(s)
    THEN [path_name |-> s.path, handling |-> "staged", changes |-> Istatus(s.status)]
    ELSE IF is_unstaged(s)
    THEN [path_name |-> s.path, handling |-> "unstaged", changes |-> Wstatus(s.status)]
    ELSE IF s.status = {"WT_NEW"}
    THEN [path_name |-> s.path, handling |-> "untracked", changes |-> "untracked"]
    ELSE IF s.status = {"IGNORED"}
    THEN [path_name |-> s.path, handling |-> "ignored", changes |-> "ignored"]
    ELSE no_entry

classify(s) ==
    IF s.status = {}
    THEN [path_name |-> s.path, handling |-> "unchanged", changes |-> "unchanged"]
    ELSE IF is_unstaged(s)
    THEN [path_name |-> s.path, handling |-> "unstaged", changes |-> Wstatus(s.status)]
    ELSE IF is_staged(s)
    THEN [path_name |-> s.path, handling |-> "staged", changes |-> Istatus(s.status)]
    ELSE IF s.status = {"WT_NEW"}
    THEN [path_name |-> s.path, handling |-> "untracked", changes |-> "untracked"]
    ELSE IF s.status = {"IGNORED"}
    THEN [path_name |-> s.path, handling |-> "ignored", changes |-> "ignored"]
    ELSE no_entry

collect_status(list) ==
    LET mapped == [k \in 1..Len(list) |-> classify(list[k])]
        Pushed(fs) == fs # no_entry
    IN SelectSeq(mapped, Pushed)

status(h, i, w) == collect_status(StatusList(h, i, w))

(***************************************************************************)
(* State.  The disk: working tree, index file, object store, references.   *)
(* The process: whether a Repository object is alive, the last call made   *)
(* and what it returned.                                                   *)
(***************************************************************************)
VARIABLES
    wt,          \* working tree: path -> value or NoFile
    index,       \* index file on disk: path -> value or NoFile
    gindex,      \* index object of the live Repository (repository_index)
    commits,     \* object store: sequence of [tree, parent, msg]; id = position
    refs,        \* refs/heads/<b> -> commit id, 0 when the branch does not exist
    head,        \* the branch HEAD symbolically points at
    repoExists,  \* a .git directory exists at the path
    live,        \* a Repository object has been constructed and not destroyed
    lastOp,      \* the last call: [op, res, code, n, arg, files]; code is the
                 \* libgit2 result of the step that failed, n the argument of
                 \* reset() or the number of status() calls in a row, arg the
                 \* glob of add() and update(), the directory of
                 \* remove_directory() or the branch name of new_branch(),
                 \* checkout() and switch_branch(), files the list given to add_files()
                 \* and remove_files()
    ret,         \* what the last call returned: the RepoState of status(),
                 \* the list of failed positions of add_files()
    phase,       \* per path: "staged" by add/add_files, then "committed";
                 \* "removed" when remove_files/remove_directory took its
                 \* index entry away, then "dropped"
    writes,      \* number of outside modifications of the working tree so far
    remotes,     \* remotes configured in the repository: name -> URL or NoUrl
    remoteRefs,  \* the bare repository behind ReachableUrl: branch -> commit id, 0 when absent
    added,       \* the [name, url] pairs add_remote has returned normally for
    handles,     \* Remote objects in the caller's hands: [state, name, url,
                 \* connected, heads, dangling, pushed]; dangling when the
                 \* repository object the git_remote points back to has been
                 \* freed, pushed once a push to refs/heads/main went through it
    ptrVal,      \* LibGitPointer objects: the raw pointer held, Null, or Gone
                 \* when the object does not exist
    ptrFrees,    \* per libgit2 object: how often it was handed to a free function
    ptrHanded,   \* libgit2 objects handed to a LibGitPointer so far
    gitlive,     \* a GitRepository object has been constructed and not destroyed
    initCount    \* git_libgit2_init calls minus git_libgit2_shutdown calls

remoteVars == <<remotes, remoteRefs, added, handles>>
ptrVars == <<ptrVal, ptrFrees, ptrHanded>>
vars == <<wt, index, gindex, commits, refs, head, repoExists, live, lastOp, ret, phase, writes,
          remoteVars, ptrVars, gitlive, initCount>>
disk == <<wt, index, commits, refs, head, repoExists>>

Call(op, res, code, n) ==
    [op |-> op, res |-> res, code |-> code, n |-> n, arg |-> "", files |-> <<>>]
CallGlob(op, glob) ==
    [op |-> op, res |-> "ok", code |-> GIT_OK, n |-> 0, arg |-> glob, files |-> <<>>]
CallBranch(op, res, code, name) ==
    [op |-> op, res |-> res, code |-> code, n |-> 0, arg |-> name, files |-> <<>>]
CallFiles(op, fp) ==
    [op |-> op, res |-> "ok", code |-> GIT_OK, n |-> 0, arg |-> "", files |-> fp]

(***************************************************************************)
(* Remotes: the names and URLs tried, the Remote objects handed out.       *)
(***************************************************************************)
RemoteNames == {"origin", "up"}
ReachableUrl == "file://r"       \* a bare repository is there
DeadUrl == "file://gone"         \* nothing is there: connecting fails
Urls == {ReachableUrl, DeadUrl}
NoUrl == "none"
NoRemotes == [n \in RemoteNames |-> NoUrl]
RemoteBranches == {"main", "topic"}
Handles == {1, 2}
NoHandle ==
    [state |-> "none", name |-> "", url |-> "", connected |-> FALSE,
     heads |-> <<>>, dangling |-> FALSE, pushed |-> FALSE]

\* git_repository_free of the repository a git_remote was created from: the
\* remote keeps its pointer to it.
Dangle(hs) ==
    [h \in Handles |->
        IF hs[h].state = "open" THEN [hs[h] EXCEPT !.dangling = TRUE] ELSE hs[h]]

(***************************************************************************)
(* LibGitPointer: the owner objects and the libgit2 objects they manage.   *)
(***************************************************************************)
Owners == {1, 2}
RawPointers == {1, 2}
Null == 0
Gone == 0 - 1

NoPhase == [p \in Paths |-> "none"]

Init ==
    /\ wt = EmptyTree
    /\ index = EmptyTree
    /\ gindex = EmptyTree
    /\ commits = <<>>
    /\ refs = [b \in Branches |-> 0]
    /\ head = "main"
    /\ repoExists = FALSE
    /\ live = FALSE
    /\ lastOp = Call("none", "ok", GIT_OK, 0)
    /\ ret = <<>>
    /\ phase = NoPhase
    /\ writes = 0
    /\ remotes = NoRemotes
    /\ remoteRefs = [b \in RemoteBranches |-> 0]
    /\ added = {}
    /\ handles = [h \in Handles |-> NoHandle]
    /\ ptrVal = [o \in Owners |-> Gone]
    /\ ptrFrees = [q \in RawPointers |-> 0]
    /\ ptrHanded = {}
    /\ gitlive = FALSE
    /\ initCount = 0

(***************************************************************************)
(* Commit graph helpers.                                                   *)
(***************************************************************************)
\* git_reference_name_to_id("HEAD"): 0 when HEAD is unborn.
HeadCommit == refs[head]

TreeOf(c) == IF c = 0 THEN EmptyTree ELSE commits[c].tree
HeadTree == TreeOf(HeadCommit)

\* An ancestor walk that stops at the root commit instead of failing.
RECURSIVE NthGenAncestor_clamped(_, _, _)
NthGenAncestor_clamped(cs, c, n) ==
    IF c = 0 THEN 0
    ELSE IF n = 0 \/ cs[c].parent = 0 THEN c
    ELSE NthGenAncestor_clamped(cs, cs[c].parent, n - 1)

\* git_commit_nth_gen_ancestor along first parents: 0 when there is none.
RECURSIVE NthGenAncestor(_, _, _)
NthGenAncestor(cs, c, n) ==
    IF c = 0 THEN 0
    ELSE IF n = 0 THEN c
    ELSE NthGenAncestor(cs, cs[c].parent, n - 1)

\* Number of commits reachable from c along first parents.
RECURSIVE Depth(_, _)
Depth(cs, c) == IF c = 0 THEN 0 ELSE 1 + Depth(cs, cs[c].parent)

\* Repository::get_last_commit_message
get_last_commit_message == commits[HeadCommit].msg

(***************************************************************************)
(* Index helpers (libgit2 index calls used by Repository).                 *)
(***************************************************************************)
\* An add_all that never removes the entry of a file gone from disk.
add_all_keeps_deleted(glob, i, w) ==
    [p \in Paths |->
        IF ~Match(glob, p) THEN i[p]
        ELSE IF w[p] = NoFile THEN i[p]
        ELSE IF i[p] = NoFile /\ p \in IgnoredPaths THEN NoFile
        ELSE w[p]]

\* git_index_add_all(glob, GIT_INDEX_ADD_DEFAULT): every matching path of
\* the index-to-workdir diff (untracked but not ignored, modified, deleted).
add_all(glob, i, w) ==
    [p \in Paths |->
        IF ~Match(glob, p) THEN i[p]
        ELSE IF w[p] = NoFile THEN NoFile
        ELSE IF i[p] = NoFile /\ p \in IgnoredPaths THEN NoFile
        ELSE w[p]]

\* An update that stages untracked files as add does.
update_all_adds(glob, i, w) == add_all(glob, i, w)

\* git_index_update_all(glob): as add_all, but tracked paths only.
update_all(glob, i, w) ==
    [p \in Paths |->
        IF ~Match(glob, p) \/ i[p] = NoFile THEN i[p]
        ELSE w[p]]

\* git_index_add_bypath fails when there is no such file on disk (nothing
\* at all, or a directory).
add_bypath_fails(w, p) == p \notin Paths \/ w[p] = NoFile

\* Repository::add_files: the loop over filepaths, every success staged.
RECURSIVE add_files_index(_, _, _, _)
add_files_index(fp, k, i, w) ==
    IF k > Len(fp) THEN i
    ELSE add_files_index(fp, k + 1,
            IF add_bypath_fails(w, fp[k]) THEN i ELSE [i EXCEPT ![fp[k]] = w[fp[k]]],
            w)

\* Repository::add_files: error_list, the 0-based positions that failed.
error_list(fp, w) ==
    LET Failed(k) == add_bypath_fails(w, fp[k + 1])
    IN SelectSeq([k \in 1..Len(fp) |-> k - 1], Failed)

\* git_index_remove_bypath for every path of the list.
remove_paths(i, ps) == [p \in Paths |-> IF p \in ps THEN NoFile ELSE i[p]]

\* git_index_remove_directory: every entry below dir.
Under(dir, p) ==
    LET d == Chars(dir)
        c == Chars(p)
    IN /\ Len(c) > Len(d) + 1
       /\ SubSeq(c, 1, Len(d)) = d
       /\ c[Len(d) + 1] = "/"

(***************************************************************************)
(* git_checkout_tree with GIT_CHECKOUT_FORCE of target tree t over         *)
(* baseline b (the HEAD tree), index i and working tree w, restricted to   *)
(* the selected paths: files of t are written, files tracked by the index  *)
(* or the baseline but absent from t are removed, untracked files stay.    *)
(***************************************************************************)
\* A checkout that writes the files of the tree but removes nothing.
checkout_wt_keeps_files(t, b, i, w, sel) ==
    [p \in Paths |->
        IF p \notin sel THEN w[p]
        ELSE IF t[p] # NoFile THEN t[p]
        ELSE w[p]]

checkout_wt(t, b, i, w, sel) ==
    [p \in Paths |->
        IF p \notin sel THEN w[p]
        ELSE IF t[p] # NoFile THEN t[p]
        ELSE IF i[p] # NoFile \/ b[p] # NoFile THEN NoFile
        ELSE w[p]]

checkout_index(t, i, sel) == [p \in Paths |-> IF p \in sel THEN t[p] ELSE i[p]]

RangeOf(seq) == {seq[k] : k \in 1..Len(seq)}

(***************************************************************************)
(* The outside world: files of the working tree are written and deleted    *)
(* by other code at any time, whether or not a Repository object exists.   *)
(***************************************************************************)
WriteFile(p, v) ==
    /\ writes < MaxWrites
    /\ wt[p] # v
    /\ wt' = [wt EXCEPT ![p] = v]
    /\ phase' = [phase EXCEPT ![p] = "none"]
    /\ writes' = writes + 1
    /\ lastOp' = Call("write", "ok", GIT_OK, 0)
    /\ ret' = <<>>
    /\ UNCHANGED <<index, gindex, commits, refs, head, repoExists, live>>
    /\ UNCHANGED <<remoteVars, ptrVars, gitlive, initCount>>

DeleteFile(p) ==
    /\ writes < MaxWrites
    /\ wt[p] # NoFile
    /\ wt' = [wt EXCEPT ![p] = NoFile]
    /\ phase' = [phase EXCEPT ![p] = "none"]
    /\ writes' = writes + 1
    /\ lastOp' = Call("delete", "ok", GIT_OK, 0)
    /\ ret' = <<>>
    /\ UNCHANGED <<index, gindex, commits, refs, head, repoExists, live>>
    /\ UNCHANGED <<remoteVars, ptrVars, gitlive, initCount>>

(***************************************************************************)
(* Repository::Repository -> init: open the repository, or create it,      *)
(* update() the index and make the initial commit.                         *)
(***************************************************************************)
ConstructOpen ==
    /\ ~live /\ ~gitlive
    /\ repoExists
    /\ live' = TRUE
    /\ gindex' = index
    /\ lastOp' = Call("open", "ok", GIT_OK, 0)
    /\ ret' = <<>>
    /\ UNCHANGED <<wt, index, commits, refs, head, repoExists, phase, writes>>
    /\ initCount' = initCount + 1
    /\ UNCHANGED <<remoteVars, ptrVars, gitlive>>

\* repository_init returned null: "Git init failed".
ConstructInitFails ==
    /\ ~live /\ ~gitlive
    /\ initCount < MaxFailedConstructions
    /\ ~repoExists
    /\ lastOp' = Call("create", "throw", GIT_ERROR, 0)
    /\ ret' = <<>>
    /\ UNCHANGED <<wt, index, gindex, commits, refs, head, repoExists, live, phase, writes>>
    /\ initCount' = initCount + 1
    /\ UNCHANGED <<remoteVars, ptrVars, gitlive>>

\* commit_initial: the tree written from the index, no parent, message
\* "Initial commit", HEAD's branch created.
commit_initial(cs, i) == Append(cs, [tree |-> i, parent |-> 0, msg |-> "Initial commit"])

ConstructCreate ==
    /\ ~live /\ ~gitlive
    /\ ~repoExists
    /\ repoExists' = TRUE
    /\ head' = "main"
    /\ gindex' = update_all("*", EmptyTree, wt)
    /\ index' = gindex'
    /\ commits' = commit_initial(<<>>, gindex')
    /\ refs' = [b \in Branches |-> IF b = "main" THEN Len(commits') ELSE 0]
    /\ live' = TRUE
    /\ lastOp' = Call("create", "ok", GIT_OK, 0)
    /\ ret' = <<>>
    /\ UNCHANGED <<wt, phase, writes>>
    /\ initCount' = initCount + 1
    /\ UNCHANGED <<remoteVars, ptrVars, gitlive>>

\* git_commit_create fails inside commit_initial: the constructor throws
\* "Initial commit failed", the created repository stays on disk.
ConstructCommitFails ==
    /\ ~live /\ ~gitlive
    /\ initCount < MaxFailedConstructions
    /\ ~repoExists
    /\ repoExists' = TRUE
    /\ head' = "main"
    /\ index' = update_all("*", EmptyTree, wt)
    /\ gindex' = EmptyTree
    /\ commits' = <<>>
    /\ refs' = [b \in Branches |-> 0]
    /\ lastOp' = Call("create", "throw", GIT_ERROR, 0)
    /\ ret' = <<>>
    /\ UNCHANGED <<wt, live, phase, writes>>
    /\ initCount' = initCount + 1
    /\ UNCHANGED <<remoteVars, ptrVars, gitlive>>

\* Repository::reset_repo: the handles are dropped and init() runs again;
\* the repository is there, so it is opened and its index is read anew.
ResetRepo ==
    /\ live
    /\ repoExists
    /\ gindex' = index
    /\ lastOp' = Call("reset_repo", "ok", GIT_OK, 0)
    /\ ret' = <<>>
    /\ UNCHANGED <<wt, index, commits, refs, head, repoExists, live, phase, writes>>
    /\ handles' = Dangle(handles)
    /\ UNCHANGED <<remotes, remoteRefs, added, ptrVars, gitlive, initCount>>

\* Repository::~Repository
Destroy ==
    /\ live
    /\ live' = FALSE
    /\ gindex' = EmptyTree
    /\ lastOp' = Call("destroy", "ok", GIT_OK, 0)
    /\ ret' = <<>>
    /\ UNCHANGED <<wt, index, commits, refs, head, repoExists, phase, writes>>
    /\ handles' = Dangle(handles)
    /\ initCount' = initCount - 1
    /\ UNCHANGED <<remotes, remoteRefs, added, ptrVars, gitlive>>

(***************************************************************************)
(* Staging.                                                                *)
(***************************************************************************)
\* Paths add(glob) is asked to stage: matching files on disk that are
\* tracked, or untracked and not ignored.
StagedByAdd(glob) ==
    {p \in Paths : /\ Match(glob, p)
                   /\ wt[p] # NoFile
                   /\ ~(index[p] = NoFile /\ p \in IgnoredPaths)}

\* An add that changes the index object but never calls git_index_write.
Add_skips_index_write(glob) ==
    /\ live
    /\ gindex' = add_all(glob, gindex, wt)
    /\ phase' = [p \in Paths |->
                    IF p \in StagedByAdd(glob) THEN "staged"
                    ELSE IF Match(glob, p) /\ index[p] # NoFile THEN "none"
                    ELSE phase[p]]
    /\ lastOp' = CallGlob("add", glob)
    /\ ret' = <<>>
    /\ UNCHANGED <<wt, index, commits, refs, head, repoExists, live, writes>>
    /\ UNCHANGED <<remoteVars, ptrVars, gitlive, initCount>>

\* Repository::add
Add(glob) ==
    /\ live
    /\ gindex' = add_all(glob, gindex, wt)
    /\ index' = gindex'
    /\ phase' = [p \in Paths |->
                    IF p \in StagedByAdd(glob) THEN "staged"
                    ELSE IF Match(glob, p) /\ index[p] # NoFile THEN "none"
                    ELSE phase[p]]
    /\ lastOp' = CallGlob("add", glob)
    /\ ret' = <<>>
    /\ UNCHANGED <<wt, commits, refs, head, repoExists, live, writes>>
    /\ UNCHANGED <<remoteVars, ptrVars, gitlive, initCount>>

\* An update that calls git_index_add_all as add does.
Update_as_add(glob) ==
    /\ live
    /\ gindex' = add_all(glob, gindex, wt)
    /\ index' = gindex'
    /\ lastOp' = CallGlob("update", glob)
    /\ ret' = <<>>
    /\ UNCHANGED <<wt, commits, refs, head, repoExists, live, phase, writes>>
    /\ UNCHANGED <<remoteVars, ptrVars, gitlive, initCount>>

\* Repository::update
Update(glob) ==
    /\ live
    /\ gindex' = update_all(glob, gindex, wt)
    /\ index' = gindex'
    /\ lastOp' = CallGlob("update", glob)
    /\ ret' = <<>>
    /\ UNCHANGED <<wt, commits, refs, head, repoExists, live, phase, writes>>
    /\ UNCHANGED <<remoteVars, ptrVars, gitlive, initCount>>

\* An add_files that stages nothing when one of the paths fails.
AddFiles_all_or_nothing(fp) ==
    /\ live
    /\ gindex' = IF error_list(fp, wt) = <<>> THEN add_files_index(fp, 1, gindex, wt)
                 ELSE gindex
    /\ index' = gindex'
    /\ phase' = [p \in Paths |->
                    IF p \in RangeOf(fp) /\ wt[p] # NoFile THEN "staged" ELSE phase[p]]
    /\ lastOp' = CallFiles("add_files", fp)
    /\ ret' = error_list(fp, wt)
    /\ UNCHANGED <<wt, commits, refs, head, repoExists, live, writes>>
    /\ UNCHANGED <<remoteVars, ptrVars, gitlive, initCount>>

\* Repository::add_files
AddFiles(fp) ==
    /\ live
    /\ gindex' = add_files_index(fp, 1, gindex, wt)
    /\ index' = gindex'
    /\ phase' = [p \in Paths |->
                    IF p \in RangeOf(fp) /\ wt[p] # NoFile THEN "staged" ELSE phase[p]]
    /\ lastOp' = CallFiles("add_files", fp)
    /\ ret' = error_list(fp, wt)
    /\ UNCHANGED <<wt, commits, refs, head, repoExists, live, writes>>
    /\ UNCHANGED <<remoteVars, ptrVars, gitlive, initCount>>

\* A remove_files that also deletes the files from the working tree.
RemoveFiles_deletes_files(fp) ==
    /\ live
    /\ gindex' = remove_paths(gindex, RangeOf(fp))
    /\ index' = gindex'
    /\ wt' = [p \in Paths |-> IF p \in RangeOf(fp) THEN NoFile ELSE wt[p]]
    /\ phase' = [p \in Paths |->
                    IF p \notin RangeOf(fp) THEN phase[p]
                    ELSE IF gindex[p] # NoFile THEN "removed" ELSE "none"]
    /\ lastOp' = CallFiles("remove_files", fp)
    /\ ret' = <<>>
    /\ UNCHANGED <<commits, refs, head, repoExists, live, writes>>
    /\ UNCHANGED <<remoteVars, ptrVars, gitlive, initCount>>

\* Repository::remove_files
RemoveFiles(fp) ==
    /\ live
    /\ gindex' = remove_paths(gindex, RangeOf(fp))
    /\ index' = gindex'
    /\ phase' = [p \in Paths |->
                    IF p \notin RangeOf(fp) THEN phase[p]
                    ELSE IF gindex[p] # NoFile THEN "removed" ELSE "none"]
    /\ lastOp' = CallFiles("remove_files", fp)
    /\ ret' = <<>>
    /\ UNCHANGED <<wt, commits, refs, head, repoExists, live, writes>>
    /\ UNCHANGED <<remoteVars, ptrVars, gitlive, initCount>>

\* Repository::remove_directory
RemoveDirectory(dir) ==
    /\ live
    /\ gindex' = remove_paths(gindex, {p \in Paths : Under(dir, p)})
    /\ index' = gindex'
    /\ phase' = [p \in Paths |->
                    IF ~Under(dir, p) THEN phase[p]
                    ELSE IF gindex[p] # NoFile THEN "removed" ELSE "none"]
    /\ lastOp' = CallGlob("remove_directory", dir)
    /\ ret' = <<>>
    /\ UNCHANGED <<wt, commits, refs, head, repoExists, live, writes>>
    /\ UNCHANGED <<remoteVars, ptrVars, gitlive, initCount>>

(***************************************************************************)
(* Repository::commit                                                      *)
(***************************************************************************)
\* git_commit_create with one parent: the tree written from the index.
\* A commit that reuses its parent's tree instead of writing the index.
commit_create_parent_tree(cs, i, parent, m) ==
    Append(cs, [tree |-> cs[parent].tree, parent |-> parent, msg |-> m])

\* A commit created with no parent, as commit_initial does.
commit_create_orphan(cs, i, parent, m) == Append(cs, [tree |-> i, parent |-> 0, msg |-> m])

commit_create(cs, i, parent, m) == Append(cs, [tree |-> i, parent |-> parent, msg |-> m])

\* A commit that stages every change of a tracked file first (commit -a).
Commit_stages_tracked(m) ==
    /\ live
    /\ HeadCommit # 0
    /\ Len(commits) < MaxCommits
    /\ gindex' = update_all("*", gindex, wt)
    /\ index' = gindex'
    /\ commits' = commit_create(commits, gindex', HeadCommit, m)
    /\ refs' = [refs EXCEPT ![head] = Len(commits')]
    /\ phase' = [p \in Paths |->
                    IF phase[p] = "staged" THEN "committed"
                    ELSE IF phase[p] = "removed" THEN "dropped"
                    ELSE phase[p]]
    /\ lastOp' = Call("commit", "ok", GIT_OK, 0)
    /\ ret' = <<>>
    /\ UNCHANGED <<wt, head, repoExists, live, writes>>
    /\ UNCHANGED <<remoteVars, ptrVars, gitlive, initCount>>

\* Repository::commit
Commit(m) ==
    /\ live
    /\ HeadCommit # 0
    /\ Len(commits) < MaxCommits
    /\ commits' = commit_create(commits, gindex, HeadCommit, m)
    /\ refs' = [refs EXCEPT ![head] = Len(commits')]
    /\ phase' = [p \in Paths |->
                    IF phase[p] = "staged" THEN "committed"
                    ELSE IF phase[p] = "removed" THEN "dropped"
                    ELSE phase[p]]
    /\ lastOp' = Call("commit", "ok", GIT_OK, 0)
    /\ ret' = <<>>
    /\ UNCHANGED <<wt, index, gindex, head, repoExists, live, writes>>
    /\ UNCHANGED <<remoteVars, ptrVars, gitlive, initCount>>

\* get_commit() throws on an unborn HEAD, or git_commit_create fails.
CommitFails(m) ==
    /\ live
    /\ lastOp' = Call("commit", "throw", IF HeadCommit = 0 THEN GIT_ENOTFOUND ELSE GIT_ERROR, 0)
    /\ ret' = <<>>
    /\ UNCHANGED <<wt, index, gindex, commits, refs, head, repoExists, live, phase, writes>>
    /\ UNCHANGED <<remoteVars, ptrVars, gitlive, initCount>>

(***************************************************************************)
(* Repository::reset(nr_of_commits): get_commit(n), then git_reset HARD.   *)
(***************************************************************************)
Reset(n) ==
    /\ live
    /\ NthGenAncestor(commits, HeadCommit, n) # 0
    /\ LET target == NthGenAncestor(commits, HeadCommit, n)
       IN /\ wt' = checkout_wt(TreeOf(target), HeadTree, gindex, wt, Paths)
          /\ gindex' = TreeOf(target)
          /\ index' = gindex'
          /\ refs' = [refs EXCEPT ![head] = target]
    /\ phase' = NoPhase
    /\ lastOp' = Call("reset", "ok", GIT_OK, n)
    /\ ret' = <<>>
    /\ UNCHANGED <<commits, head, repoExists, live, writes>>
    /\ UNCHANGED <<remoteVars, ptrVars, gitlive, initCount>>

\* get_commit(n) throws: git_reference_name_to_id finds no commit for an
\* unborn HEAD, or git_commit_nth_gen_ancestor finds fewer than n+1 commits.
ResetFails(n) ==
    /\ live
    /\ NthGenAncestor(commits, HeadCommit, n) = 0
    /\ lastOp' = Call("reset", "throw", GIT_ENOTFOUND, n)
    /\ ret' = <<>>
    /\ UNCHANGED <<wt, index, gindex, commits, refs, head, repoExists, live, phase, writes>>
    /\ UNCHANGED <<remoteVars, ptrVars, gitlive, initCount>>

(***************************************************************************)
(* Branches.                                                               *)
(***************************************************************************)
\* parse_reference_from_name / branch_lookup: the reference a short branch
\* name designates; reference_name: its full name, in segments.
parse_reference_from_name(name) == [short |-> name]
reference_name(ref) == <<"refs", "heads", ref.short>>

\* Repository::get_commit(ref): git_reference_name_to_id, then the lookup of
\* the commit; 0 when the reference does not resolve.
get_commit(rs, full) == IF full[3] \in Branches THEN rs[full[3]] ELSE 0

\* The tip commit of the branch called name, as checkout, switch_branch and
\* new_branch look it up.
TipOf(name) == get_commit(refs, reference_name(parse_reference_from_name(name)))

\* Repository::new_branch(name, origin): branch_create with force = 0.
NewBranch(name, origin) ==
    /\ live
    /\ refs[origin] # 0
    /\ refs[name] = 0
    /\ refs' = [refs EXCEPT ![name] = TipOf(origin)]
    /\ lastOp' = CallBranch("new_branch", "ok", GIT_OK, name)
    /\ ret' = <<>>
    /\ UNCHANGED <<wt, index, gindex, commits, head, repoExists, live, phase, writes>>
    /\ UNCHANGED <<remoteVars, ptrVars, gitlive, initCount>>

\* The name is taken: git_branch_create reports GIT_EEXISTS and
\* branch_create returns a null reference.
NewBranchExists(name, origin) ==
    /\ live
    /\ refs[origin] # 0
    /\ refs[name] # 0
    /\ lastOp' = CallBranch("new_branch", "null", GIT_EEXISTS, name)
    /\ ret' = <<>>
    /\ UNCHANGED <<wt, index, gindex, commits, refs, head, repoExists, live, phase, writes>>
    /\ UNCHANGED <<remoteVars, ptrVars, gitlive, initCount>>

\* checkout_opts.paths: an empty list selects every path.
Selected(paths) == IF paths = <<>> THEN Paths ELSE RangeOf(paths) \cap Paths

\* A checkout that never fills in checkout_opts.paths.
Checkout_ignores_paths(b, paths) ==
    /\ live
    /\ TipOf(b) # 0
    /\ wt' = checkout_wt(TreeOf(TipOf(b)), HeadTree, gindex, wt, Paths)
    /\ gindex' = checkout_index(TreeOf(TipOf(b)), gindex, Paths)
    /\ index' = gindex'
    /\ phase' = NoPhase
    /\ lastOp' = [CallBranch("checkout", "ok", GIT_OK, b) EXCEPT !.files = paths]
    /\ ret' = <<>>
    /\ UNCHANGED <<commits, refs, head, repoExists, live, writes>>
    /\ UNCHANGED <<remoteVars, ptrVars, gitlive, initCount>>

\* Repository::checkout(branch, paths): git_checkout_tree, HEAD untouched.
Checkout(b, paths) ==
    /\ live
    /\ TipOf(b) # 0
    /\ wt' = checkout_wt(TreeOf(TipOf(b)), HeadTree, gindex, wt, Selected(paths))
    /\ gindex' = checkout_index(TreeOf(TipOf(b)), gindex, Selected(paths))
    /\ index' = gindex'
    /\ phase' = [p \in Paths |-> IF p \in Selected(paths) THEN "none" ELSE phase[p]]
    /\ lastOp' = [CallBranch("checkout", "ok", GIT_OK, b) EXCEPT !.files = paths]
    /\ ret' = <<>>
    /\ UNCHANGED <<commits, refs, head, repoExists, live, writes>>
    /\ UNCHANGED <<remoteVars, ptrVars, gitlive, initCount>>

\* Repository::get_current_branch_name: the shorthand of the reference
\* HEAD points at.
get_current_branch_name == head

\* A switch_branch that moves HEAD and does not call reset(0).
SwitchBranch_without_reset(b) ==
    /\ live
    /\ TipOf(b) # 0
    /\ head' = b
    /\ phase' = NoPhase
    /\ lastOp' = CallBranch("switch_branch", "ok", GIT_OK, b)
    /\ ret' = <<>>
    /\ UNCHANGED <<wt, index, gindex, commits, refs, repoExists, live, writes>>
    /\ UNCHANGED <<remoteVars, ptrVars, gitlive, initCount>>

\* Repository::switch_branch: git_repository_set_head, then reset(0).
SwitchBranch(b) ==
    /\ live
    /\ TipOf(b) # 0
    /\ head' = b
    /\ wt' = checkout_wt(TreeOf(TipOf(b)), TreeOf(TipOf(b)), gindex, wt, Paths)
    /\ gindex' = TreeOf(TipOf(b))
    /\ index' = gindex'
    /\ phase' = NoPhase
    /\ lastOp' = CallBranch("switch_branch", "ok", GIT_OK, b)
    /\ ret' = <<>>
    /\ UNCHANGED <<commits, refs, repoExists, live, writes>>
    /\ UNCHANGED <<remoteVars, ptrVars, gitlive, initCount>>

(***************************************************************************)
(* Repository::status                                                      *)
(***************************************************************************)
\* A status() that refreshes the index from the working tree.
Status_refreshes_index ==
    /\ live
    /\ ret' = status(HeadTree, gindex, wt)
    /\ gindex' = update_all("*", gindex, wt)
    /\ index' = gindex'
    /\ lastOp' = Call("status", "ok", GIT_OK, IF lastOp.op = "status" THEN 2 ELSE 1)
    /\ UNCHANGED <<wt, commits, refs, head, repoExists, live, phase, writes>>
    /\ UNCHANGED <<remoteVars, ptrVars, gitlive, initCount>>

Status ==
    /\ live
    /\ ret' = status(HeadTree, gindex, wt)
    /\ lastOp' = Call("status", "ok", GIT_OK, IF lastOp.op = "status" THEN 2 ELSE 1)
    /\ UNCHANGED <<wt, index, gindex, commits, refs, head, repoExists, live, phase, writes>>
    /\ UNCHANGED <<remoteVars, ptrVars, gitlive, initCount>>

(***************************************************************************)
(* Remotes: Repository::add_remote, get_remote, list_remotes,              *)
(* list_remote_names, push and Remote::list_references.                    *)
(***************************************************************************)
CallRemote(op, res, code, name, url) ==
    [Call(op, res, code, 0) EXCEPT !.arg = name, !.files = <<url>>]

FreeHandles == {h \in Handles : handles[h].state = "none"}
NewHandle == CHOOSE h \in FreeHandles : \A g \in FreeHandles : h <= g

\* Remote::Remote: the object takes the git_remote of the named remote.
OpenRemote(n, u) ==
    [state |-> "open", name |-> n, url |-> u, connected |-> FALSE,
     heads |-> <<>>, dangling |-> FALSE, pushed |-> FALSE]

\* An add_remote that replaces the URL of a name already configured.
AddRemoteExists_overwrites(n, u) ==
    /\ live
    /\ remotes[n] # NoUrl
    /\ FreeHandles # {}
    /\ remotes' = [remotes EXCEPT ![n] = u]
    /\ added' = added \cup {[name |-> n, url |-> u]}
    /\ handles' = [handles EXCEPT ![NewHandle] = OpenRemote(n, u)]
    /\ lastOp' = CallRemote("add_remote", "ok", GIT_OK, n, u)
    /\ ret' = <<[name |-> n, url |-> u]>>
    /\ UNCHANGED <<wt, index, gindex, commits, refs, head, repoExists, live, phase,
                   writes, remoteRefs, ptrVars, gitlive, initCount>>

\* Repository::add_remote, git_remote_create reports GIT_EEXISTS:
\* remote_create returns null and the Error is thrown.
AddRemoteExists(n, u) ==
    /\ live
    /\ remotes[n] # NoUrl
    /\ lastOp' = CallRemote("add_remote", "throw", GIT_EEXISTS, n, u)
    /\ ret' = <<>>
    /\ UNCHANGED <<wt, index, gindex, commits, refs, head, repoExists, live, phase,
                   writes, remoteVars, ptrVars, gitlive, initCount>>

\* Repository::add_remote with an unused name: the remote is written to the
\* configuration and handed out as a Remote.
AddRemote(n, u) ==
    /\ live
    /\ remotes[n] = NoUrl
    /\ FreeHandles # {}
    /\ remotes' = [remotes EXCEPT ![n] = u]
    /\ added' = added \cup {[name |-> n, url |-> u]}
    /\ handles' = [handles EXCEPT ![NewHandle] = OpenRemote(n, u)]
    /\ lastOp' = CallRemote("add_remote", "ok", GIT_OK, n, u)
    /\ ret' = <<[name |-> n, url |-> u]>>
    /\ UNCHANGED <<wt, index, gindex, commits, refs, head, repoExists, live, phase,
                   writes, remoteRefs, ptrVars, gitlive, initCount>>

\* A get_remote that throws for a name that is not configured.
GetRemote_throws_when_absent(n) ==
    /\ live
    /\ IF remotes[n] # NoUrl
       THEN /\ FreeHandles # {}
            /\ handles' = [handles EXCEPT ![NewHandle] = OpenRemote(n, remotes[n])]
            /\ ret' = <<[name |-> n, url |-> remotes[n]]>>
            /\ lastOp' = CallRemote("get_remote", "ok", GIT_OK, n, "")
       ELSE /\ handles' = handles
            /\ ret' = <<>>
            /\ lastOp' = CallRemote("get_remote", "throw", GIT_ENOTFOUND, n, "")
    /\ UNCHANGED <<wt, index, gindex, commits, refs, head, repoExists, live, phase,
                   writes, remotes, remoteRefs, added, ptrVars, gitlive, initCount>>

\* Repository::get_remote: remote_lookup gives null for every failure of
\* git_remote_lookup, which becomes the empty optional.
GetRemote(n) ==
    /\ live
    /\ IF remotes[n] # NoUrl
       THEN /\ FreeHandles # {}
            /\ handles' = [handles EXCEPT ![NewHandle] = OpenRemote(n, remotes[n])]
            /\ ret' = <<[name |-> n, url |-> remotes[n]]>>
       ELSE /\ handles' = handles
            /\ ret' = <<>>
    /\ lastOp' = CallRemote("get_remote", "ok", GIT_OK, n, "")
    /\ UNCHANGED <<wt, index, gindex, commits, refs, head, repoExists, live, phase,
                   writes, remotes, remoteRefs, added, ptrVars, gitlive, initCount>>

\* git_remote_list: the configured names, sorted.
RemoteNameList == <<"origin", "up">>
remote_list(rs) ==
    LET Configured(n) == rs[n] # NoUrl
    IN SelectSeq(RemoteNameList, Configured)

\* Repository::list_remote_names
ListRemoteNames ==
    /\ live
    /\ ret' = remote_list(remotes)
    /\ lastOp' = Call("list_remote_names", "ok", GIT_OK, 0)
    /\ UNCHANGED <<wt, index, gindex, commits, refs, head, repoExists, live, phase,
                   writes, remoteVars, ptrVars, gitlive, initCount>>

\* Repository::list_remotes: get_remote for every listed name; the Remote
\* objects of the returned vector are not kept by the caller.
ListRemotes ==
    /\ live
    /\ ret' = [k \in 1..Len(remote_list(remotes)) |->
                 [name |-> remote_list(remotes)[k],
                  url |-> remotes[remote_list(remotes)[k]]]]
    /\ lastOp' = Call("list_remotes", "ok", GIT_OK, 0)
    /\ UNCHANGED <<wt, index, gindex, commits, refs, head, repoExists, live, phase,
                   writes, remoteVars, ptrVars, gitlive, initCount>>

\* What the repository behind ReachableUrl advertises (git_remote_ls): its
\* HEAD, which points at main, when main exists, and its branches.
RefNameList == <<"HEAD", "refs/heads/main", "refs/heads/topic">>
Advertised(rr) ==
    LET There(r) == CASE r = "HEAD" -> rr["main"] # 0
                      [] r = "refs/heads/main" -> rr["main"] # 0
                      [] r = "refs/heads/topic" -> rr["topic"] # 0
    IN SelectSeq(RefNameList, There)

\* git_remote_connect followed by git_remote_ls on a Remote that was not
\* connected.
ConnectAndList(h) ==
    IF handles[h].url = ReachableUrl
    THEN /\ handles' = [handles EXCEPT ![h].connected = TRUE,
                                       ![h].heads = Advertised(remoteRefs)]
         /\ ret' = Advertised(remoteRefs)
         /\ lastOp' = Call("list_references", "ok", GIT_OK, h)
    ELSE /\ handles' = handles
         /\ ret' = <<>>
         /\ lastOp' = Call("list_references", "throw", GIT_ENOTFOUND, h)

\* Remote::list_references. A connected remote answers git_remote_ls from
\* the list it received when it connected. git_remote_connect on a remote
\* whose repository has been freed reads through the dangling repository
\* pointer (and, after the last git_libgit2_shutdown, runs in a library that
\* is not initialised): the call may work or not.
ListReferences(h) ==
    /\ handles[h].state = "open"
    /\ \/ /\ handles[h].connected
          /\ ret' = handles[h].heads
          /\ lastOp' = Call("list_references", "ok", GIT_OK, h)
          /\ handles' = handles
       \/ /\ ~handles[h].connected
          /\ ConnectAndList(h)
       \/ /\ ~handles[h].connected
          /\ handles[h].dangling
          /\ ret' = <<>>
          /\ lastOp' = Call("list_references", "undefined", GIT_ERROR, h)
          /\ handles' = handles
    /\ UNCHANGED <<wt, index, gindex, commits, refs, head, repoExists, live, phase,
                   writes, remotes, remoteRefs, added, ptrVars, gitlive, initCount>>

\* Remote::~Remote: git_remote_free.
FreeRemote(h) ==
    /\ handles[h].state = "open"
    /\ handles' = [handles EXCEPT ![h] = NoHandle]
    /\ lastOp' = Call("free_remote", "ok", GIT_OK, h)
    /\ ret' = <<>>
    /\ UNCHANGED <<wt, index, gindex, commits, refs, head, repoExists, live, phase,
                   writes, remotes, remoteRefs, added, ptrVars, gitlive, initCount>>

Refspecs == {"HEAD:refs/heads/main", "HEAD:refs/heads/topic"}
Destination(refspec) == IF refspec = "HEAD:refs/heads/main" THEN "main" ELSE "topic"

\* A push that leaves the remote connected.
Push_stays_connected(h, refspec) ==
    /\ live
    /\ handles[h].state = "open"
    /\ ~handles[h].dangling
    /\ handles[h].url = ReachableUrl
    /\ HeadCommit # 0
    /\ remoteRefs' = [remoteRefs EXCEPT ![Destination(refspec)] = HeadCommit]
    /\ handles' = IF handles[h].connected
                  THEN [handles EXCEPT ![h].pushed = @ \/ Destination(refspec) = "main"]
                  ELSE [handles EXCEPT ![h].connected = TRUE,
                                       ![h].heads = Advertised(remoteRefs),
                                       ![h].pushed = @ \/ Destination(refspec) = "main"]
    /\ lastOp' = [Call("push", "ok", GIT_OK, h) EXCEPT !.arg = refspec]
    /\ ret' = <<>>
    /\ UNCHANGED <<wt, index, gindex, commits, refs, head, repoExists, live, phase,
                   writes, remotes, added, ptrVars, gitlive, initCount>>

\* Repository::push over the local transport: git_remote_push connects when
\* the remote is not connected, uploads, sets the destination reference to
\* the commit of the source and disconnects. References below refs/heads of
\* the local repository are not touched.
Push(h, refspec) ==
    /\ live
    /\ handles[h].state = "open"
    /\ ~handles[h].dangling
    /\ handles[h].url = ReachableUrl
    /\ HeadCommit # 0
    /\ remoteRefs' = [remoteRefs EXCEPT ![Destination(refspec)] = HeadCommit]
    /\ handles' = [handles EXCEPT ![h].connected = FALSE, ![h].heads = <<>>,
                                  ![h].pushed = @ \/ Destination(refspec) = "main"]
    /\ lastOp' = [Call("push", "ok", GIT_OK, h) EXCEPT !.arg = refspec]
    /\ ret' = <<>>
    /\ UNCHANGED <<wt, index, gindex, commits, refs, head, repoExists, live, phase,
                   writes, remotes, added, ptrVars, gitlive, initCount>>

\* Repository::push fails: nothing answers at the URL, or HEAD names no
\* commit. git_remote_push returns the error and "Push remote" is thrown.
PushFails(h, refspec) ==
    /\ live
    /\ handles[h].state = "open"
    /\ ~handles[h].dangling
    /\ handles[h].url # ReachableUrl \/ HeadCommit = 0
    /\ lastOp' = [Call("push", "throw", GIT_ERROR, h) EXCEPT !.arg = refspec]
    /\ ret' = <<>>
    /\ UNCHANGED <<wt, index, gindex, commits, refs, head, repoExists, live, phase,
                   writes, remoteVars, ptrVars, gitlive, initCount>>

(***************************************************************************)
(* git::Error (Error.h, Error.cc): the error code an exception carries.    *)
(***************************************************************************)
\* The values of git_error_code, and one that is none of them.
ErrorValues == (0 - 37)..1
Whats == {"", "Test", "Cannot find HEAD of branch"}

\* The category object of the free function git::git_category() (Error.cc).
git_category == "git::git_category()::instance"
\* The category object of the member function Error::git_category() (Error.h)
\* that the constructors' initialisers name.
Error_git_category == "git::Error::git_category()::instance"

\* ::make_error_code(git_error_code)
make_error_code(ev) == [value |-> ev, category |-> git_category]

\* Error(int ev), Error(int ev, what): std::system_error(ev, git_category(), what)
\* with git_category looked up in the scope of the class.
ErrorWithCode(ev, what) ==
    /\ ret' = [code |-> [value |-> ev, category |-> Error_git_category], what |-> what]
    /\ lastOp' = [Call("Error", "ok", GIT_OK, ev) EXCEPT !.arg = "code"]
    /\ UNCHANGED <<wt, index, gindex, commits, refs, head, repoExists, live, phase,
                   writes, remoteVars, ptrVars, gitlive, initCount>>

\* Error(what): the code defaults to GIT_EUSER.
ErrorWithMessage(what) ==
    /\ ret' = [code |-> [value |-> GIT_EUSER, category |-> Error_git_category],
               what |-> what]
    /\ lastOp' = [Call("Error", "ok", GIT_OK, GIT_EUSER) EXCEPT !.arg = "message"]
    /\ UNCHANGED <<wt, index, gindex, commits, refs, head, repoExists, live, phase,
                   writes, remoteVars, ptrVars, gitlive, initCount>>

(***************************************************************************)
(* git_index_write fails (the index file is locked by another process):    *)
(* the callers below do not look at its result.                            *)
(***************************************************************************)
\* Repository::add: git_index_add_all has changed the index object, the
\* write to disk fails, add returns.
AddWriteFails(glob) ==
    /\ live
    /\ gindex' = add_all(glob, gindex, wt)
    /\ phase' = [p \in Paths |->
                    IF p \in StagedByAdd(glob) THEN "staged"
                    ELSE IF Match(glob, p) /\ index[p] # NoFile THEN "none"
                    ELSE phase[p]]
    /\ lastOp' = [CallGlob("add", glob) EXCEPT !.code = GIT_ELOCKED]
    /\ ret' = <<>>
    /\ UNCHANGED <<wt, index, commits, refs, head, repoExists, live, writes>>
    /\ UNCHANGED <<remoteVars, ptrVars, gitlive, initCount>>

\* Repository::update, the same way.
UpdateWriteFails(glob) ==
    /\ live
    /\ gindex' = update_all(glob, gindex, wt)
    /\ lastOp' = [CallGlob("update", glob) EXCEPT !.code = GIT_ELOCKED]
    /\ ret' = <<>>
    /\ UNCHANGED <<wt, index, commits, refs, head, repoExists, live, phase, writes>>
    /\ UNCHANGED <<remoteVars, ptrVars, gitlive, initCount>>

\* Repository::remove_files, the same way.
RemoveFilesWriteFails(fp) ==
    /\ live
    /\ gindex' = remove_paths(gindex, RangeOf(fp))
    /\ phase' = [p \in Paths |->
                    IF p \notin RangeOf(fp) THEN phase[p]
                    ELSE IF gindex[p] # NoFile THEN "removed" ELSE "none"]
    /\ lastOp' = [CallFiles("remove_files", fp) EXCEPT !.code = GIT_ELOCKED]
    /\ ret' = <<>>
    /\ UNCHANGED <<wt, index, commits, refs, head, repoExists, live, writes>>
    /\ UNCHANGED <<remoteVars, ptrVars, gitlive, initCount>>

\* Repository::remove_directory, the same way.
RemoveDirectoryWriteFails(dir) ==
    /\ live
    /\ gindex' = remove_paths(gindex, {p \in Paths : Under(dir, p)})
    /\ phase' = [p \in Paths |->
                    IF ~Under(dir, p) THEN phase[p]
                    ELSE IF gindex[p] # NoFile THEN "removed" ELSE "none"]
    /\ lastOp' = [CallGlob("remove_directory", dir) EXCEPT !.code = GIT_ELOCKED]
    /\ ret' = <<>>
    /\ UNCHANGED <<wt, index, commits, refs, head, repoExists, live, writes>>
    /\ UNCHANGED <<remoteVars, ptrVars, gitlive, initCount>>

(***************************************************************************)
(* LibGitPointer<T> (LibGitPointer.h) and its use in                       *)
(* GitRepository::clone_repo.                                              *)
(***************************************************************************)
Alive(o) == ptrVal[o] # Gone

\* detail::free_libgit_ptr(val_): the libgit2 free functions ignore null.
free_libgit_ptr(fr, v) == IF v = Null THEN fr ELSE [fr EXCEPT ![v] = @ + 1]

PtrCall(op, o) == Call(op, "ok", GIT_OK, o)
PtrFrame ==
    UNCHANGED <<wt, index, gindex, commits, refs, head, repoExists, live, phase, writes,
                remoteVars, gitlive, initCount, ret>>

\* LibGitPointer()
PtrDefault(o) ==
    /\ ~Alive(o)
    /\ ptrVal' = [ptrVal EXCEPT ![o] = Null]
    /\ lastOp' = PtrCall("LibGitPointer()", o)
    /\ UNCHANGED <<ptrFrees, ptrHanded>>
    /\ PtrFrame

\* LibGitPointer(T* val) with a pointer libgit2 has just returned.
PtrFromRaw(o, q) ==
    /\ ~Alive(o)
    /\ q \notin ptrHanded
    /\ ptrVal' = [ptrVal EXCEPT ![o] = q]
    /\ ptrHanded' = ptrHanded \cup {q}
    /\ lastOp' = PtrCall("LibGitPointer(T*)", o)
    /\ UNCHANGED ptrFrees
    /\ PtrFrame

\* LibGitPointer(LibGitPointer&& lg)
PtrMoveConstruct(o, lg) ==
    /\ ~Alive(o)
    /\ Alive(lg)
    /\ ptrVal' = [ptrVal EXCEPT ![o] = ptrVal[lg], ![lg] = Null]
    /\ lastOp' = PtrCall("LibGitPointer(LibGitPointer&&)", o)
    /\ UNCHANGED <<ptrFrees, ptrHanded>>
    /\ PtrFrame

\* operator=(LibGitPointer&& lg): val_ = std::exchange(lg.val_, nullptr);
\* what val_ held before is overwritten.
PtrMoveAssign(o, lg) ==
    /\ Alive(o)
    /\ Alive(lg)
    /\ ptrVal' = [[ptrVal EXCEPT ![lg] = Null] EXCEPT ![o] = ptrVal[lg]]
    /\ lastOp' = PtrCall("operator=", o)
    /\ UNCHANGED <<ptrFrees, ptrHanded>>
    /\ PtrFrame

\* reset()
PtrReset(o) ==
    /\ Alive(o)
    /\ ptrFrees' = free_libgit_ptr(ptrFrees, ptrVal[o])
    /\ ptrVal' = [ptrVal EXCEPT ![o] = Null]
    /\ lastOp' = PtrCall("reset", o)
    /\ UNCHANGED ptrHanded
    /\ PtrFrame

\* ~LibGitPointer()
PtrDestroy(o) ==
    /\ Alive(o)
    /\ ptrFrees' = free_libgit_ptr(ptrFrees, ptrVal[o])
    /\ ptrVal' = [ptrVal EXCEPT ![o] = Gone]
    /\ lastOp' = PtrCall("~LibGitPointer", o)
    /\ UNCHANGED ptrHanded
    /\ PtrFrame

\* GitRepository::clone_repo, clone succeeded: the local repo owns the new
\* repository q; "repo_ = repo.get()" builds a temporary LibGitPointer from
\* the raw pointer and move-assigns it to the member repo_ (owner 1); the
\* temporary, now null, and the local repo, still holding q, are destroyed.
CloneRepo(q) ==
    /\ Alive(1)
    /\ q \notin ptrHanded
    /\ ptrHanded' = ptrHanded \cup {q}
    /\ ptrVal' = [ptrVal EXCEPT ![1] = q]
    /\ ptrFrees' = free_libgit_ptr(free_libgit_ptr(ptrFrees, Null), q)
    /\ lastOp' = PtrCall("clone_repo", 1)
    /\ PtrFrame

(***************************************************************************)
(* Inputs tried and the specification.                                     *)
(***************************************************************************)
FileLists == {<<p>> : p \in CorePaths} \cup {<<"a", "d/b">>, <<"d", "a">>}
Dirs == {"d"}
Selections == {<<>>} \cup {<<p>> : p \in CorePaths}

\* Calls on the current branch only.
Next ==
    \/ \E p \in CorePaths : \E v \in WritableValues(p) : WriteFile(p, v)
    \/ \E p \in CorePaths : DeleteFile(p)
    \/ ConstructOpen
    \/ ConstructInitFails
    \/ ConstructCreate
    \/ ConstructCommitFails
    \/ ResetRepo
    \/ Destroy
    \/ \E g \in Globs : Add(g)
    \/ \E m \in Messages : Commit(m)
    \/ \E m \in Messages : CommitFails(m)
    \/ \E n \in 0..MaxReset : Reset(n)
    \/ \E n \in 0..MaxReset : ResetFails(n)
    \/ Status

Spec == Init /\ [][Next]_vars

\* Staging and removal: the repository is created once and regular files are
\* written, staged, removed from the index and committed.
NextStage ==
    \/ \E p \in CorePaths : \E v \in WritableValues(p) \ {"l1"} : WriteFile(p, v)
    \/ \E p \in CorePaths : DeleteFile(p)
    \/ ConstructCreate
    \/ \E g \in Globs : Add(g)
    \/ \E g \in Globs : Update(g)
    \/ \E fp \in FileLists : AddFiles(fp)
    \/ \E fp \in FileLists : RemoveFiles(fp)
    \/ \E d \in Dirs : RemoveDirectory(d)
    \/ \E m \in Messages : Commit(m)
    \/ Status

SpecStage == Init /\ [][NextStage]_vars

\* Remotes: a repository is created and committed to, remotes are added,
\* looked up, listed and pushed to, the repository object is destroyed while
\* Remote objects are still in use.
NextRemote ==
    \/ ConstructCreate
    \/ Destroy
    \/ \E m \in Messages : Commit(m)
    \/ \E n \in RemoteNames : \E u \in Urls : AddRemote(n, u)
    \/ \E n \in RemoteNames : \E u \in Urls : AddRemoteExists(n, u)
    \/ \E n \in RemoteNames : GetRemote(n)
    \/ ListRemoteNames
    \/ ListRemotes
    \/ \E h \in Handles : ListReferences(h)
    \/ \E h \in Handles : FreeRemote(h)
    \/ \E h \in Handles : \E r \in Refspecs : Push(h, r)
    \/ \E h \in Handles : \E r \in Refspecs : PushFails(h, r)

SpecRemote == Init /\ [][NextRemote]_vars

\* Error objects are constructed from every code and message.
NextError ==
    \/ \E ev \in ErrorValues : \E w \in Whats : ErrorWithCode(ev, w)
    \/ \E w \in Whats : ErrorWithMessage(w)

SpecError == Init /\ [][NextError]_vars

\* Failing index writes: files are staged and removed while the index file
\* cannot always be written, the repository is closed and opened again.
NextFault ==
    \/ \E p \in {"a", "d/b"} : WriteFile(p, "f1")
    \/ ConstructCreate
    \/ ConstructOpen
    \/ Destroy
    \/ \E g \in Globs : Add(g)
    \/ \E g \in Globs : AddWriteFails(g)
    \/ UpdateWriteFails("*")
    \/ RemoveFiles(<<"a">>)
    \/ RemoveFilesWriteFails(<<"a">>)
    \/ \E d \in Dirs : RemoveDirectoryWriteFails(d)
    \/ \E m \in Messages : Commit(m)
    \/ \E m \in Messages : CommitFails(m)
    \/ Status

SpecFault == Init /\ [][NextFault]_vars

\* LibGitPointer objects are constructed, moved, reset and destroyed.
NextPtr ==
    \/ \E o \in Owners : PtrDefault(o)
    \/ \E o \in Owners : \E q \in RawPointers : PtrFromRaw(o, q)
    \/ \E o, lg \in Owners : PtrMoveConstruct(o, lg)
    \/ \E o, lg \in Owners : PtrMoveAssign(o, lg)
    \/ \E o \in Owners : PtrReset(o)
    \/ \E o \in Owners : PtrDestroy(o)
    \/ \E q \in RawPointers : CloneRepo(q)

SpecPtr == Init /\ [][NextPtr]_vars

(***************************************************************************)
(* GitRepository: the second wrapper class over the same repository.       *)
(***************************************************************************)
GIT_EINVALIDSPEC == 0 - 12

\* GitRepository::get_commit(int count): the string "HEAD~<count>", in
\* characters grouped as the name, the tilde and the number.
RevisionOf(count) == <<"HEAD", "~", count>>

\* git_reference_name_to_id: the name is normalised as a reference name
\* first, and a reference name holds no '~'; only then is it resolved.
reference_name_to_id(rs, hd, ref) ==
    IF "~" \in RangeOf(ref) THEN [error |-> GIT_EINVALIDSPEC, id |-> 0]
    ELSE IF ref = <<"HEAD">> /\ rs[hd] # 0 THEN [error |-> GIT_OK, id |-> rs[hd]]
    ELSE [error |-> GIT_ENOTFOUND, id |-> 0]

\* GitRepository::GitRepository, the repository is there: it is opened, and
\* the remote "origin" is created with the URL given unless it exists.
GitRepositoryOpen(u) ==
    /\ ~live /\ ~gitlive
    /\ repoExists
    /\ gitlive' = TRUE
    /\ gindex' = index
    /\ remotes' = IF remotes["origin"] = NoUrl THEN [remotes EXCEPT !["origin"] = u]
                  ELSE remotes
    /\ lastOp' = CallRemote("git_open", "ok", GIT_OK, "origin", u)
    /\ ret' = <<>>
    /\ initCount' = initCount + 1
    /\ UNCHANGED <<wt, index, commits, refs, head, repoExists, live, phase, writes,
                   remoteRefs, added, handles, ptrVars>>

\* GitRepository::GitRepository, no repository yet: it is created, update()
\* and commit_initial() run, and the remote "origin" is created.
GitRepositoryCreate(u) ==
    /\ ~live /\ ~gitlive
    /\ ~repoExists
    /\ repoExists' = TRUE
    /\ head' = "main"
    /\ gindex' = update_all("*", EmptyTree, wt)
    /\ index' = gindex'
    /\ commits' = commit_initial(<<>>, gindex')
    /\ refs' = [b \in Branches |-> IF b = "main" THEN Len(commits') ELSE 0]
    /\ gitlive' = TRUE
    /\ remotes' = [remotes EXCEPT !["origin"] = u]
    /\ lastOp' = CallRemote("git_create", "ok", GIT_OK, "origin", u)
    /\ ret' = <<>>
    /\ initCount' = initCount + 1
    /\ UNCHANGED <<wt, live, phase, writes, remoteRefs, added, handles, ptrVars>>

\* GitRepository::~GitRepository
GitRepositoryDestroy ==
    /\ gitlive
    /\ gitlive' = FALSE
    /\ gindex' = EmptyTree
    /\ lastOp' = Call("git_destroy", "ok", GIT_OK, 0)
    /\ ret' = <<>>
    /\ initCount' = initCount - 1
    /\ UNCHANGED <<wt, index, commits, refs, head, repoExists, live, phase, writes,
                   remoteVars, ptrVars>>

\* GitRepository::get_last_commit_message: get_commit("HEAD") and its message.
GitRepositoryGetLastCommitMessage ==
    /\ gitlive
    /\ LET found == reference_name_to_id(refs, head, <<"HEAD">>)
       IN /\ lastOp' = Call("get_last_commit_message",
                            IF found.error = GIT_OK THEN "ok" ELSE "throw", found.error, 0)
          /\ ret' = IF found.error = GIT_OK THEN <<commits[found.id].msg>> ELSE <<>>
    /\ UNCHANGED <<wt, index, gindex, commits, refs, head, repoExists, live, phase, writes,
                   remoteVars, ptrVars, gitlive, initCount>>

\* GitRepository::reset(nr_of_commits): get_commit(nr_of_commits) hands
\* "HEAD~<n>" to git_reference_name_to_id; on an error it throws, else
\* git_reset HARD moves HEAD's branch, the index and the working tree.
GitRepositoryReset(n) ==
    /\ gitlive
    /\ LET found == reference_name_to_id(refs, head, RevisionOf(n))
       IN IF found.error # GIT_OK
          THEN /\ lastOp' = Call("reset", "throw", found.error, n)
               /\ UNCHANGED <<wt, index, gindex, refs, phase>>
          ELSE /\ wt' = checkout_wt(TreeOf(found.id), HeadTree, gindex, wt, Paths)
               /\ gindex' = TreeOf(found.id)
               /\ index' = gindex'
               /\ refs' = [refs EXCEPT ![head] = found.id]
               /\ phase' = NoPhase
               /\ lastOp' = Call("reset", "ok", GIT_OK, n)
    /\ ret' = <<>>
    /\ UNCHANGED <<commits, head, repoExists, live, writes,
                   remoteVars, ptrVars, gitlive, initCount>>

\* Both wrappers on one repository: it is built and reset through a
\* Repository, then opened and reset through a GitRepository.
NextGit ==
    \/ \E p \in {"a"} : WriteFile(p, "f1")
    \/ ConstructCreate
    \/ ConstructOpen
    \/ Destroy
    \/ Add("*")
    \/ \E m \in Messages : Commit(m)
    \/ \E n \in 0..MaxReset : Reset(n)
    \/ \E n \in 0..MaxReset : ResetFails(n)
    \/ \E u \in Urls : GitRepositoryOpen(u)
    \/ \E u \in Urls : GitRepositoryCreate(u)
    \/ GitRepositoryDestroy
    \/ GitRepositoryGetLastCommitMessage
    \/ \E n \in 0..MaxReset : GitRepositoryReset(n)

SpecGit == Init /\ [][NextGit]_vars

\* Branch handling: the working tree is staged as a whole, branches are
\* created, checked out and switched to.
NextBranch ==
    \/ \E v \in WritableValues("a") : WriteFile("a", v)
    \/ DeleteFile("a")
    \/ ConstructOpen
    \/ ConstructInitFails
    \/ ConstructCreate
    \/ ConstructCommitFails
    \/ Destroy
    \/ Add("*")
    \/ \E m \in Messages : Commit(m)
    \/ \E m \in Messages : CommitFails(m)
    \/ \E n \in 0..MaxReset : Reset(n)
    \/ \E n \in 0..MaxReset : ResetFails(n)
    \/ \E b \in Branches : NewBranch(b, head)
    \/ \E b \in Branches : NewBranchExists(b, head)
    \/ \E b \in Branches : \E paths \in Selections : Checkout(b, paths)
    \/ \E b \in Branches : SwitchBranch(b)

SpecBranch == Init /\ [][NextBranch]_vars

\* Globs tried on whole trees: a directory holding any of the files is
\* made a repository, globs are staged, status is asked.
InitGlob ==
    /\ wt \in [Paths -> {NoFile, "f1"}]
    /\ index = EmptyTree
    /\ gindex = EmptyTree
    /\ commits = <<>>
    /\ refs = [b \in Branches |-> 0]
    /\ head = "main"
    /\ repoExists = FALSE
    /\ live = FALSE
    /\ lastOp = Call("none", "ok", GIT_OK, 0)
    /\ ret = <<>>
    /\ phase = NoPhase
    /\ writes = 0
    /\ remotes = NoRemotes
    /\ remoteRefs = [b \in RemoteBranches |-> 0]
    /\ added = {}
    /\ handles = [h \in Handles |-> NoHandle]
    /\ ptrVal = [o \in Owners |-> Gone]
    /\ ptrFrees = [q \in RawPointers |-> 0]
    /\ ptrHanded = {}
    /\ gitlive = FALSE
    /\ initCount = 0

NextGlob ==
    \/ ConstructCreate
    \/ \E g \in GlobTests : Add(g)
    \/ Status

SpecGlob == InitGlob /\ [][NextGlob]_vars

(***************************************************************************)
(* Properties.                                                             *)
(***************************************************************************)
\* status() has just returned ret for the present HEAD, index, working tree.
AfterStatus == lastOp.op = "status"
Entries(p) == {k \in 1..Len(ret) : ret[k].path_name = p}
Handlings == {"unchanged", "unstaged", "staged", "untracked", "ignored"}
DocumentedChanges ==
    {"new file", "deleted", "renamed", "typechanged", "modified",
     "unchanged", "ignored", "untracked"}

\* C1: status() returns exactly one FileStatus for every path present in
\* the HEAD tree, the index or the working tree, none for any other path,
\* and every handling is one of the five buckets.
C1_OneEntryPerKnownPath ==
    AfterStatus =>
        /\ \A p \in Paths :
              Cardinality(Entries(p)) = IF Known(HeadTree, index, wt, p) THEN 1 ELSE 0
        /\ \A k \in 1..Len(ret) :
              ret[k].path_name \in Paths /\ ret[k].handling \in Handlings

\* A status() over a path deleted from the index but present in HEAD and
\* on disk, next to an ignored file.
C1_Witness ==
    /\ AfterStatus
    /\ \E p \in Paths : HeadTree[p] # NoFile /\ index[p] = NoFile /\ wt[p] # NoFile
    /\ \E k \in 1..Len(ret) : ret[k].handling = "ignored"

\* C2: every changes value is a documented kind and agrees with handling.
C2_ChangesDocumented ==
    AfterStatus =>
        \A k \in 1..Len(ret) :
            LET h == ret[k].handling
                c == ret[k].changes
            IN /\ c \in DocumentedChanges
               /\ (h = "unchanged") <=> (c = "unchanged")
               /\ (h = "untracked") <=> (c = "untracked")
               /\ (h = "ignored") <=> (c = "ignored")
               /\ h = "staged" =>
                     c \in {"new file", "modified", "deleted", "renamed", "typechanged"}
               /\ h = "unstaged" =>
                     c \in {"modified", "deleted", "renamed", "typechanged"}

\* C3 as stated: a path that differs between index and HEAD and between
\* working tree and index is reported unstaged; a path reported staged has
\* the same content in working tree and index.
C3_StagedOnlyIfWtEqualsIndex ==
    AfterStatus =>
        \A k \in 1..Len(ret) :
            LET p == ret[k].path_name
            IN /\ (IndexFlags(HeadTree, index, p) # {} /\ wt[p] # index[p]) =>
                     ret[k].handling = "unstaged"
               /\ ret[k].handling = "staged" => wt[p] = index[p]

\* The working-tree change kind of an indexed path.
WtKind(p) ==
    IF wt[p] = NoFile THEN "deleted"
    ELSE IF Kind(wt[p]) # Kind(index[p]) THEN "typechange"
    ELSE "modified"

\* C3 amended: a path whose index entry differs from HEAD and whose file
\* differs from that index entry is reported once, unstaged, with the
\* working-tree kind; a path reported staged has the same content in
\* working tree and index, or has no index entry (a staged deletion, whose
\* file may still be on disk).
C3_UnstagedBeforeStaged ==
    AfterStatus =>
        /\ \A p \in Paths :
              (IndexFlags(HeadTree, index, p) # {} /\ index[p] # NoFile
                  /\ wt[p] # index[p]) =>
                    /\ Cardinality(Entries(p)) = 1
                    /\ \A k \in Entries(p) :
                          ret[k].handling = "unstaged" /\ ret[k].changes = WtKind(p)
        /\ \A k \in 1..Len(ret) :
              ret[k].handling = "staged" =>
                  \/ wt[ret[k].path_name] = index[ret[k].path_name]
                  \/ index[ret[k].path_name] = NoFile

\* A status() over a file staged as new and modified afterwards.
C3_Witness ==
    /\ AfterStatus
    /\ \E k \in 1..Len(ret) :
          LET p == ret[k].path_name
          IN /\ HeadTree[p] = NoFile /\ index[p] # NoFile
             /\ wt[p] \notin {NoFile, index[p]}
             /\ ret[k].handling = "unstaged"

C5_StatusIsPure ==
    [][lastOp'.op = "status" =>
          /\ disk' = disk
          /\ (lastOp.op = "status" => ret' = ret)]_vars

\* A second status() in a row, over a staged and an untracked file.
C5_Witness ==
    /\ AfterStatus
    /\ lastOp.n = 2
    /\ \E k \in 1..Len(ret) : ret[k].handling = "staged"
    /\ \E k \in 1..Len(ret) : ret[k].handling = "untracked"

\* The entry status() reports for path p in the next state.
NextEntry(p) ==
    LET r == status(HeadTree', index', wt')
    IN {r[k] : k \in {j \in 1..Len(r) : r[j].path_name = p}}

NoneStagedOrUnstagedNext ==
    LET r == status(HeadTree', index', wt')
    IN \A k \in 1..Len(r) : r[k].handling \notin {"staged", "unstaged"}

\* C6: a successful commit(msg) appends one commit whose only parent is the
\* previous tip, whose tree is the index and whose message is msg, and
\* moves the current branch (and nothing else) to it; only the commit made
\* at creation has no parent.
C6_CommitAdvancesTip ==
    /\ [][(lastOp'.op = "commit" /\ lastOp'.res = "ok") =>
            \E m \in Messages :
               /\ HeadCommit # 0
               /\ commits' = Append(commits,
                                [tree |-> index, parent |-> HeadCommit, msg |-> m])
               /\ head' = head
               /\ refs' = [refs EXCEPT ![head] = Len(commits) + 1]
               /\ get_last_commit_message' = m]_vars
    /\ [](\A c \in 1..Len(commits) :
             commits[c].parent = 0 <=> (c = 1 /\ commits[c].msg = "Initial commit"))

\* A commit on top of the initial commit that records a different tree.
C6_Witness ==
    /\ lastOp.op = "commit" /\ lastOp.res = "ok"
    /\ HeadCommit = 2
    /\ commits[2].parent = 1 /\ commits[1].parent = 0
    /\ commits[2].tree # commits[1].tree

\* C7 as stated: reset(N) with N below the number of commits moves the tip
\* to the Nth ancestor and makes index and working tree equal to its tree.
C7_ResetMakesWtEqualTree ==
    [][lastOp'.op = "reset" =>
          (lastOp'.n < Depth(commits, HeadCommit) =>
              LET target == NthGenAncestor(commits, HeadCommit, lastOp'.n)
              IN /\ lastOp'.res = "ok"
                 /\ refs' = [refs EXCEPT ![head] = target]
                 /\ index' = commits[target].tree
                 /\ wt' = commits[target].tree
                 /\ NoneStagedOrUnstagedNext
                 /\ (lastOp'.n = 0 => refs' = refs))]_vars

\* C7 amended: reset(N) with N below the number of commits moves the tip to
\* the Nth ancestor, makes the index equal to its tree and every path of
\* that tree, of the old index or of the old HEAD tree equal to it in the
\* working tree; untracked and ignored files outside the tree stay on disk
\* as they are.  status() then reports nothing staged or unstaged, and
\* reset(0) leaves the tip where it is.
C7_ResetRestoresTracked ==
    [][lastOp'.op = "reset" =>
          (lastOp'.n < Depth(commits, HeadCommit) =>
              LET target == NthGenAncestor(commits, HeadCommit, lastOp'.n)
                  t == commits[target].tree
              IN /\ lastOp'.res = "ok"
                 /\ refs' = [refs EXCEPT ![head] = target]
                 /\ head' = head /\ commits' = commits
                 /\ index' = t
                 /\ \A p \in Paths :
                       wt'[p] = IF t[p] # NoFile \/ index[p] # NoFile
                                      \/ HeadTree[p] # NoFile
                                THEN t[p] ELSE wt[p]
                 /\ NoneStagedOrUnstagedNext
                 /\ (lastOp'.n = 0 => refs' = refs))]_vars

\* reset(1) has taken the branch back one commit and removed a file; an
\* untracked file is still on disk.
C7_Witness ==
    /\ lastOp.op = "reset" /\ lastOp.res = "ok" /\ lastOp.n = 1
    /\ HeadCommit # 0 /\ HeadCommit < Len(commits)
    /\ \E p \in Paths : wt[p] = NoFile /\ commits[Len(commits)].tree[p] # NoFile
    /\ \E p \in Paths \ IgnoredPaths : wt[p] # NoFile /\ index[p] = NoFile

\* C8: for N at or above the number of commits on the first-parent chain of
\* HEAD the ancestor lookup fails with GIT_ENOTFOUND and reset(N) throws,
\* leaving HEAD, references, commits, index and working tree as they were.
C8_ResetBeyondHistoryThrows ==
    [][(lastOp'.op = "reset" /\ lastOp'.n >= Depth(commits, HeadCommit)) =>
          /\ NthGenAncestor(commits, HeadCommit, lastOp'.n) = 0
          /\ lastOp'.res = "throw"
          /\ lastOp'.code = GIT_ENOTFOUND
          /\ disk' = disk]_vars

\* reset(N) has thrown with N exactly the number of commits, over
\* uncommitted changes.
C8_Witness ==
    /\ lastOp.op = "reset" /\ lastOp.res = "throw"
    /\ Depth(commits, HeadCommit) >= 2
    /\ lastOp.n = Depth(commits, HeadCommit)
    /\ index # HeadTree

\* C9: once a constructor has opened or created the repository, HEAD
\* resolves to an existing commit and every branch reference that exists
\* points to an existing commit.
C9_HeadAlwaysResolves ==
    live =>
        /\ HeadCommit \in 1..Len(commits)
        /\ \A b \in Branches : refs[b] \in 0..Len(commits)

AfterAdd == lastOp'.op = "add" /\ lastOp'.res = "ok"

\* A path one of whose segments starts with '.'.
Hidden(p) == \E j \in 1..Len(Chars(p)) :
                 Chars(p)[j] = "." /\ (j = 1 \/ Chars(p)[j - 1] = "/")

\* C12 as stated: add(glob) sets the index entry of every matching file
\* on disk to the file's content, removes the entry of every matching path
\* absent from disk, and leaves other entries, the working tree, HEAD and
\* the references alone; add("*") covers every non-hidden file.
C12_AddStagesEveryMatch ==
    [][AfterAdd =>
          /\ \A p \in Paths :
                index'[p] = IF Match(lastOp'.arg, p) THEN wt[p] ELSE index[p]
          /\ lastOp'.arg = "*" => \A p \in Paths : ~Hidden(p) => index'[p] = wt[p]
          /\ wt' = wt /\ head' = head /\ refs' = refs /\ commits' = commits]_vars

\* C12 amended: as stated, except that an untracked file excluded by an
\* ignore rule is never staged, also under add("*").
C12_AddStagesMatchNotIgnored ==
    [][AfterAdd =>
          /\ \A p \in Paths :
                index'[p] =
                    IF ~Match(lastOp'.arg, p) THEN index[p]
                    ELSE IF index[p] = NoFile /\ p \in IgnoredPaths THEN NoFile
                    ELSE wt[p]
          /\ lastOp'.arg = "*" =>
                \A p \in Paths :
                    (~Hidden(p) /\ ~(index[p] = NoFile /\ p \in IgnoredPaths)) =>
                        index'[p] = wt[p]
          /\ wt' = wt /\ head' = head /\ refs' = refs /\ commits' = commits]_vars

\* add("a") has staged the new file a and left the untracked d/b alone.
C12_Witness ==
    /\ lastOp.op = "add" /\ lastOp.arg = "a"
    /\ HeadCommit # 0 /\ HeadTree["a"] = NoFile
    /\ wt["a"] # NoFile /\ index["a"] = wt["a"]
    /\ wt["d/b"] # NoFile /\ index["d/b"] = NoFile

\* The paths that have an index entry.
IndexPaths(i) == {p \in Paths : i[p] # NoFile}

Stageable(p) == wt[p] # NoFile /\ index[p] = NoFile /\ p \notin IgnoredPaths

\* The non-hidden paths whose whole pathname matches each glob tried, read
\* off the documented rules.
WholeNameMatches(g) ==
    CASE g = "*" -> {"H/a", "a", "d/H/a", "d/a", "d/b", "x.o"}
      [] g = "a*" -> {"a"}
      [] g = "*/a*" -> {"H/a", "d/H/a", "d/a"}
      [] g = "*/H*" -> {"d/H/a"}
      [] g = "H*" -> {"H/a"}
      [] g = ".*" -> {}
      [] g = "d/?" -> {"d/a", "d/b"}
      [] g = "*[Hd]/*" -> {"H/a", "d/H/a", "d/a", "d/b"}
      [] g = "d/[a-b]" -> {"d/a", "d/b"}
      [] g = "d" -> {}
      [] g = "?" -> {"a"}
      [] g = "a" -> {"a"}
      [] g = "d/*" -> {"d/H/a", "d/a", "d/b"}

\* The files below the directory a glob without wildcard names.
BelowNamedDir(g) == IF g = "d" THEN {"d/H/a", "d/a", "d/b"} ELSE {}

ExplicitDotGlobs == {".*"}

\* C15: a file with a segment starting with '.' is newly staged by
\* add(glob) only if the glob has an explicit '.' at that position: ".*"
\* stages .h/a, and no other glob tried does, in particular not "*".
C15_HiddenNeedsExplicitDot ==
    [][AfterAdd =>
          \A p \in Paths :
              (Hidden(p) /\ Stageable(p)) =>
                  (index'[p] # NoFile <=> lastOp'.arg \in ExplicitDotGlobs)]_vars

\* add_files(paths) has just returned.
AfterAddFiles == lastOp'.op = "add_files"

\* Positions of the list whose path is not a file on disk, counted from 0.
Unstageable(fp) == {k - 1 : k \in {j \in 1..Len(fp) : fp[j] \notin Paths \/ wt[fp[j]] = NoFile}}

AfterRemove == lastOp'.op \in {"remove_files", "remove_directory"}

\* The paths the call names.
NamedByRemove ==
    IF lastOp'.op = "remove_files" THEN RangeOf(lastOp'.files) \cap Paths
    ELSE BelowNamedDir(lastOp'.arg)

\* What status() is to report for a file on disk that was removed from the
\* index and then committed away.
RemovedThenCommitted(p) == phase[p] = "dropped" /\ wt[p] # NoFile

\* C17 as stated: remove_files and remove_directory succeed whether or not
\* the files exist, remove the index entries of the named paths and leave
\* every other entry, the working tree, HEAD, the references and the
\* commits alone; status() then reports a removed path of HEAD as
\* staged/deleted, and after the next commit a file still on disk as
\* untracked.
C17_RemoveThenUntracked ==
    /\ [][AfterRemove =>
            /\ lastOp'.res = "ok"
            /\ \A p \in Paths :
                  index'[p] = IF p \in NamedByRemove THEN NoFile ELSE index[p]
            /\ wt' = wt /\ head' = head /\ refs' = refs /\ commits' = commits
            /\ \A p \in NamedByRemove :
                  HeadTree[p] # NoFile =>
                      NextEntry(p) = {[path_name |-> p, handling |-> "staged",
                                       changes |-> "deleted"]}]_vars
    /\ [](AfterStatus =>
            \A p \in Paths :
                RemovedThenCommitted(p) =>
                    \E k \in 1..Len(ret) :
                        ret[k] = [path_name |-> p, handling |-> "untracked",
                                  changes |-> "untracked"])

\* C17 amended: as stated, except that after the next commit a file still
\* on disk that an ignore rule excludes is reported as ignored.
C17_RemoveThenUntrackedOrIgnored ==
    /\ [][AfterRemove =>
            /\ lastOp'.res = "ok"
            /\ \A p \in Paths :
                  index'[p] = IF p \in NamedByRemove THEN NoFile ELSE index[p]
            /\ wt' = wt /\ head' = head /\ refs' = refs /\ commits' = commits
            /\ \A p \in NamedByRemove :
                  HeadTree[p] # NoFile =>
                      NextEntry(p) = {[path_name |-> p, handling |-> "staged",
                                       changes |-> "deleted"]}]_vars
    /\ [](AfterStatus =>
            \A p \in Paths :
                RemovedThenCommitted(p) =>
                    \E k \in 1..Len(ret) :
                        ret[k] = IF p \in IgnoredPaths
                                 THEN [path_name |-> p, handling |-> "ignored",
                                       changes |-> "ignored"]
                                 ELSE [path_name |-> p, handling |-> "untracked",
                                       changes |-> "untracked"])

\* remove_files has taken a committed file that is still on disk out of
\* the index.
C17_Witness ==
    /\ lastOp.op = "remove_files"
    /\ \E p \in RangeOf(lastOp.files) \cap Paths :
          HeadTree[p] # NoFile /\ index[p] = NoFile /\ wt[p] = HeadTree[p]

\* C18: new_branch(name) on the current branch leaves HEAD, index, working
\* tree and commits alone; it creates refs/heads/name at the tip of the
\* current branch, or, when the name is taken, fails with an error that
\* carries GIT_EEXISTS and changes no reference.
C18_NewBranchExistingThrows ==
    [][lastOp'.op = "new_branch" =>
          /\ head' = head /\ index' = index /\ wt' = wt /\ commits' = commits
          /\ IF refs[lastOp'.arg] = 0
             THEN /\ lastOp'.res = "ok"
                  /\ refs' = [refs EXCEPT ![lastOp'.arg] = refs[head]]
             ELSE /\ lastOp'.res = "throw"
                  /\ lastOp'.code = GIT_EEXISTS
                  /\ refs' = refs]_vars

\* checkout(branch, paths) has just returned.
AfterCheckout == lastOp'.op = "checkout" /\ lastOp'.res = "ok"

\* The paths the call selects, and the tip tree of the branch it names.
CheckoutSelection ==
    IF lastOp'.files = <<>> THEN Paths
    ELSE {lastOp'.files[k] : k \in 1..Len(lastOp'.files)} \cap Paths
CheckoutTree == commits[refs[lastOp'.arg]].tree

\* C19 as stated: checkout(branch, paths) gives every selected path of the
\* working tree its content in the branch's tip tree, leaves every other
\* file alone and moves neither HEAD nor a branch reference.
C19_CheckoutOverwritesSelected ==
    [][AfterCheckout =>
          /\ \A p \in Paths :
                wt'[p] = IF p \in CheckoutSelection THEN CheckoutTree[p] ELSE wt[p]
          /\ head' = head /\ refs' = refs /\ commits' = commits]_vars

\* C19 amended: a selected path that the branch's tip tree contains gets
\* the tree's content; a selected path it does not contain is removed when
\* it is tracked (in the index or in the HEAD tree) and stays on disk as it
\* is when it is untracked; every other file is left alone, and neither
\* HEAD nor a branch reference moves.
C19_CheckoutKeepsUntracked ==
    [][AfterCheckout =>
          /\ \A p \in Paths :
                wt'[p] = IF p \notin CheckoutSelection THEN wt[p]
                         ELSE IF CheckoutTree[p] # NoFile THEN CheckoutTree[p]
                         ELSE IF index[p] # NoFile \/ HeadTree[p] # NoFile THEN NoFile
                         ELSE wt[p]
          /\ head' = head /\ refs' = refs /\ commits' = commits]_vars

\* checkout of another branch has written that branch's file into the
\* working tree while HEAD stays on a branch without that file.
C19_Witness ==
    /\ lastOp.op = "checkout" /\ lastOp.arg # head
    /\ \E p \in Paths :
          /\ wt[p] # NoFile
          /\ wt[p] = commits[refs[lastOp.arg]].tree[p]
          /\ HeadTree[p] = NoFile

\* C20: switch_branch(name) for an existing branch returns normally with
\* HEAD on that branch and get_current_branch_name() = name, moves no
\* branch reference, and leaves the index and every tracked file equal to
\* the tree of the branch's tip, whatever was changed or staged before.
C20_SwitchRestoresTip ==
    [][lastOp'.op = "switch_branch" =>
          LET name == lastOp'.arg
              tip == commits[refs[name]].tree
          IN /\ lastOp'.res = "ok"
             /\ head' = name
             /\ get_current_branch_name' = name
             /\ refs' = refs /\ commits' = commits
             /\ index' = tip
             /\ \A p \in Paths :
                   (tip[p] # NoFile \/ index[p] # NoFile) => wt'[p] = tip[p]
             /\ NoneStagedOrUnstagedNext]_vars

\* switch_branch has moved HEAD to a branch whose tip differs from the
\* tip of the other branch, and the working tree holds that tip's file.
C20_Witness ==
    /\ lastOp.op = "switch_branch" /\ head = lastOp.arg
    /\ \E b \in Branches \ {head} : refs[b] # 0 /\ TreeOf(refs[b]) # HeadTree
    /\ \E p \in Paths : HeadTree[p] # NoFile /\ wt[p] = HeadTree[p]

C22_QueriesReturnAddedRemotes ==
    /\ lastOp.op = "list_remote_names" =>
          /\ RangeOf(ret) = {r.name : r \in added}
          /\ Len(ret) = Cardinality(added)
    /\ lastOp.op = "list_remotes" =>
          /\ RangeOf(ret) = added
          /\ Len(ret) = Cardinality(added)
    /\ lastOp.op = "get_remote" =>
          /\ lastOp.res = "ok"
          /\ RangeOf(ret) = {r \in added : r.name = lastOp.arg}
          /\ Len(ret) <= 1

\* get_remote has returned the empty optional while another remote exists.
C22_Witness ==
    /\ lastOp.op = "get_remote"
    /\ ret = <<>>
    /\ added # {}

\* C23: on a Remote whose Repository object has been destroyed,
\* list_references returns what the endpoint advertises, connected before the
\* destruction or not.
C23_RemoteOutlivesRepository ==
    [][(/\ lastOp'.op = "list_references"
        /\ handles[lastOp'.n].dangling
        /\ handles[lastOp'.n].url = ReachableUrl) =>
          /\ lastOp'.res = "ok"
          /\ ret' = Advertised(remoteRefs)]_vars

C25_ErrorCodeInGitCategory ==
    lastOp.op = "Error" =>
        /\ ret.code.value = lastOp.n
        /\ lastOp.arg = "message" => ret.code.value = GIT_EUSER
        /\ ret.code.category = git_category
        /\ ret.code = make_error_code(lastOp.n)

\* C26: commit leaves the index and the working tree as they are and stores
\* the index as the tree of the new commit; a tracked file whose content on
\* disk differs from the index is not in that tree with its content on disk
\* and is reported unstaged/modified afterwards.
C26_CommitSnapshotsIndex ==
    [][(lastOp'.op = "commit" /\ lastOp'.res = "ok") =>
          /\ UNCHANGED <<wt, index, gindex>>
          /\ commits'[Len(commits')].tree = index
          /\ \A p \in Paths :
                (/\ index[p] # NoFile
                 /\ wt[p] \notin {NoFile, index[p]}
                 /\ Kind(wt[p]) = Kind(index[p])) =>
                   /\ commits'[Len(commits')].tree[p] # wt[p]
                   /\ NextEntry(p) = {[path_name |-> p, handling |-> "unstaged",
                                       changes |-> "modified"]}]_vars

\* A commit was made while a staged file had other content on disk.
C26_Witness ==
    /\ lastOp.op = "commit"
    /\ lastOp.res = "ok"
    /\ \E p \in Paths : /\ HeadTree[p] = index[p]
                        /\ index[p] # NoFile
                        /\ wt[p] \notin {NoFile, index[p]}

\* C27: when a step on the index or the object store fails inside update,
\* add, remove_files, remove_directory or commit, the call throws.
C27_NoFailureSwallowed ==
    [][(/\ lastOp'.op \in {"update", "add", "remove_files", "remove_directory", "commit"}
        /\ lastOp'.code # GIT_OK) =>
          lastOp'.res = "throw"]_vars

\* C28: every libgit2 object handed to a LibGitPointer is freed exactly once:
\* it is never freed twice, while it is not freed exactly one LibGitPointer
\* holds it, and once it is freed none does.
C28_FreedExactlyOnce ==
    \A q \in ptrHanded :
        LET holders == {o \in Owners : ptrVal[o] = q}
        IN /\ ptrFrees[q] <= 1
           /\ ptrFrees[q] = 0 => Cardinality(holders) = 1
           /\ ptrFrees[q] = 1 => holders = {}

\* C29: git_libgit2_init calls minus git_libgit2_shutdown calls equals the
\* number of live repository objects, and is at least one whenever a Remote
\* has made a libgit2 call or freed its git_remote.
C29_LibraryInitialisedWhenUsed ==
    /\ initCount = (IF live \/ gitlive THEN 1 ELSE 0)
    /\ lastOp.op \in {"list_references", "free_remote"} => initCount >= 1

\* C30: on a history of at least two commits reset(0) and reset(1) succeed
\* on both wrappers, GitRepository and Repository, and leave HEAD's branch
\* at the commit that many generations back.
C30_ResetSucceedsOnBothWrappers ==
    [][\A n \in 0..1 :
          (/\ lastOp'.op = "reset"
           /\ lastOp'.n = n
           /\ Depth(commits, HeadCommit) >= 2)
          => /\ lastOp'.res = "ok"
             /\ refs'[head] = NthGenAncestor(commits, HeadCommit, n)]_vars

====
